---- MODULE Spec2Model ----
(***************************************************************************)
(* Model of code/unused_experiments/pixart/utils.py: the image dataset     *)
(* (ConstructDataset), the tensor shapes of the sequential networks        *)
(* (Generator, Discriminator, Unet_Generator_V2), the CutMix loss          *)
(* (unet_d_criterion_with_cutmix) and the CutMix sample generation         *)
(* (generate_CutMix_samples, rand_bbox).                                   *)
(*                                                                         *)
(* Each part of the file is an independent piece of code, so each has its  *)
(* own specification (SpecDataset, SpecNet, SpecLoss, SpecCutMix) over the *)
(* variables of that part; the other parts' variables stay idle.           *)
(***************************************************************************)
EXTENDS Integers, Sequences, FiniteSets, TLC

VARIABLES
    \* ConstructDataset
    dirEntries,      \* what os.listdir(image_dir) yields: a sequence of [name, isfile]
    image_files,     \* self.image_files
    dsPc,            \* "new" (before __init__), "ready", "len", "item", "error"
    dsResult,        \* the value the last method call returned
    \* the sequential networks' forward pass
    netName,         \* the class of the module whose forward runs
    netLayers,       \* its layers, in the order forward applies them
    netPos,          \* the index of the next layer to apply
    netShapes,       \* the input's shape, then the shape after each layer applied
    netStatus,       \* "run", "done", "error" (a shape the next layer rejects)
    netFedFrom,      \* the generator whose output is the input, or "none"
    \* unet_d_criterion_with_cutmix
    lossPc,          \* the statement the call is at
    lossBatchSize,   \* batch_size
    out_1,           \* the encoder output, one entry per image
    out_2,           \* the decoder output, flattened
    M,               \* the mask, flattened like out_2
    p1, p2,          \* out_2 * M and out_2 * (1 - M)
    loss_1, loss_2,  \* the two sums, as sign classes
    lossLogArgs,     \* every value torch.log was applied to so far
    lossRet,         \* the returned loss, as a sign class
    \* generate_CutMix_samples (the second definition, which is the one bound)
    cmPc,            \* the statement the call is at
    batch_size, H, W, \* real_batch.size(): (batch_size, _, H, W)
    ratios,          \* one fraction <<numerator, denominator>> per image
    rand_indices,    \* the permutation of the fake batch
    bbx1, bby1, bbx2, bby2,
    cutmixed,
    cutmixed_decoded,
    cmRet            \* the returned tuple

dsVars == <<dirEntries, image_files, dsPc, dsResult>>
netVars == <<netName, netLayers, netPos, netShapes, netStatus, netFedFrom>>
lossVars == <<lossPc, lossBatchSize, out_1, out_2, M, p1, p2, loss_1, loss_2,
              lossLogArgs, lossRet>>
cmVars == <<cmPc, batch_size, H, W, ratios, rand_indices,
            bbx1, bby1, bbx2, bby2, cutmixed, cutmixed_decoded, cmRet>>

vars == <<dirEntries, image_files, dsPc, dsResult,
          netName, netLayers, netPos, netShapes, netStatus, netFedFrom,
          lossPc, lossBatchSize, out_1, out_2, M, p1, p2, loss_1, loss_2,
          lossLogArgs, lossRet,
          cmPc, batch_size, H, W, ratios, rand_indices,
          bbx1, bby1, bbx2, bby2, cutmixed, cutmixed_decoded, cmRet>>

Min(a, b) == IF a <= b THEN a ELSE b

(***************************************************************************)
(* ConstructDataset                                                        *)
(***************************************************************************)

\* image_files keeps at most this many entries (the [:1000] slice).
MaxFiles == 1000

\* Directories listed have up to MaxFiles + Slack entries, and their
\* non-file entries (subdirectories) sit among the first Slack or the last
\* Slack entries.
Slack == 2

\* The listing sizes tried: small directories and directories around the cap.
DirSizes == (0 .. 2 * Slack) \cup ((MaxFiles - Slack) .. (MaxFiles + Slack))

\* The positions of a listing of n entries that may hold a subdirectory.
DirSlots(n) == {j \in 1 .. n : j <= Slack \/ j > n - Slack}

\* A listing of n entries, named 1 .. n, of which those in dirs are
\* subdirectories and the others regular files.
Listing(n, dirs) == [j \in 1 .. n |-> [name |-> j, isfile |-> j \notin dirs]]

\* os.path.isfile(os.path.join(image_dir, f))
IsFile(e) == e.isfile

\* seq[:k] for k >= 0
Prefix(seq, k) == SubSeq(seq, 1, Min(k, Len(seq)))

\* A plausible slip: slicing the listing before filtering it.
ImageFilesSliceFirst(listing) ==
    LET kept == SelectSeq(Prefix(listing, MaxFiles), IsFile)
    IN  [j \in 1 .. Len(kept) |-> kept[j].name]

\* [f for f in os.listdir(image_dir) if os.path.isfile(...)][:1000]
ImageFiles(listing) ==
    LET kept == Prefix(SelectSeq(listing, IsFile), MaxFiles)
    IN  [j \in 1 .. Len(kept) |-> kept[j].name]

DatasetInit ==
    /\ \E n \in DirSizes : \E dirs \in SUBSET DirSlots(n) :
          dirEntries = Listing(n, dirs)
    /\ image_files = <<>>
    /\ dsPc = "new"
    /\ dsResult = [kind |-> "none", val |-> 0]

DatasetIdle ==
    /\ dirEntries = <<>>
    /\ image_files = <<>>
    /\ dsPc = "off"
    /\ dsResult = [kind |-> "none", val |-> 0]

\* ConstructDataset.__init__
Construct ==
    /\ dsPc = "new"
    /\ image_files' = ImageFiles(dirEntries)
    /\ dsPc' = "ready"
    /\ UNCHANGED <<dirEntries, dsResult>>
    /\ UNCHANGED <<netVars, lossVars, cmVars>>

\* ConstructDataset.__len__
DatasetLen ==
    /\ dsPc \in {"ready", "len", "item", "error"}
    /\ dsResult' = [kind |-> "len", val |-> Len(image_files)]
    /\ dsPc' = "len"
    /\ UNCHANGED <<dirEntries, image_files>>
    /\ UNCHANGED <<netVars, lossVars, cmVars>>

\* The indices __getitem__ is tried with: around both ends of the list, and
\* Python's negative indices.
ItemIndices == LET n == Len(image_files)
               IN  ((0 - Slack) .. Slack) \cup ((n - Slack) .. (n + Slack))

\* self.image_files[idx]: Python list indexing, 0-based, negative from the end.
ListIndex(seq, idx) ==
    IF idx >= 0 /\ idx < Len(seq) THEN [kind |-> "item", val |-> seq[idx + 1]]
    ELSE IF idx < 0 /\ idx >= 0 - Len(seq)
         THEN [kind |-> "item", val |-> seq[Len(seq) + idx + 1]]
    ELSE [kind |-> "IndexError", val |-> idx]

\* ConstructDataset.__getitem__: the file it opens (the image's content is
\* not modelled).
DatasetGetItem ==
    /\ dsPc \in {"ready", "len", "item", "error"}
    /\ \E idx \in ItemIndices :
          LET f == ListIndex(image_files, idx)
          IN  /\ dsResult' = f
              /\ dsPc' = IF f.kind = "IndexError" THEN "error" ELSE "item"
    /\ UNCHANGED <<dirEntries, image_files>>
    /\ UNCHANGED <<netVars, lossVars, cmVars>>

DatasetNext == Construct \/ DatasetLen \/ DatasetGetItem

(***************************************************************************)
(* Generator, Discriminator, Unet_Generator_V2: the shape of the tensor    *)
(* after each layer of forward. A shape is <<N, C, H, W>> or, once         *)
(* flattened, <<N, F>>.                                                    *)
(***************************************************************************)

\* Inputs have 1 .. MaxBatchN images and 1 .. MaxChannels channels; the
\* modules are built with latent_dim, channels_out, channels_in in
\* 1 .. MaxChannels; a latent input is up to MaxLatentSide on a side and an
\* image up to MaxImageSide.
MaxBatchN == 2
MaxChannels == 2
MaxLatentSide == 2
MaxImageSide == 16

Layer(op, cin, cout, k, s, p) ==
    [op |-> op, cin |-> cin, cout |-> cout, k |-> k, s |-> s, p |-> p]

\* nn.ConvTranspose2d(cin, cout, k, s, p, bias=False)
ConvTranspose2d(cin, cout, k, s, p) == Layer("ConvTranspose2d", cin, cout, k, s, p)
\* nn.Conv2d(cin, cout, k, s, p, bias=False)
Conv2d(cin, cout, k, s, p) == Layer("Conv2d", cin, cout, k, s, p)
\* nn.BatchNorm2d(c)
BatchNorm2d(c) == Layer("BatchNorm2d", c, c, 0, 0, 0)
\* nn.ReLU(), nn.Tanh(), nn.LeakyReLU(0.2), nn.Dropout(p=0.2), nn.Sigmoid()
Elementwise(op) == Layer(op, 0, 0, 0, 0, 0)
\* torch.flatten(x, 1)
Flatten == Layer("Flatten", 0, 0, 0, 0, 0)
\* nn.Linear(fin, fout)
Linear(fin, fout) == Layer("Linear", fin, fout, 0, 0, 0)

ElementwiseOps == {"ReLU", "Tanh", "LeakyReLU", "Dropout", "Sigmoid"}

\* Generator.forward: self.model, then self.final_layer
GeneratorLayers(latent_dim, channels_out) ==
    << ConvTranspose2d(latent_dim, 1024, 4, 1, 0),
       BatchNorm2d(1024),
       Elementwise("ReLU"),
       ConvTranspose2d(1024, 512, 4, 2, 1),
       Elementwise("Tanh"),
       ConvTranspose2d(512, channels_out, 4, 2, 1) >>

\* Discriminator.forward: self.model, torch.flatten(x, 1), self.fc
DiscriminatorLayers(channels_in) ==
    << Conv2d(channels_in, 64, 4, 2, 1),
       Elementwise("LeakyReLU"),
       Conv2d(64, 128, 4, 2, 1),
       BatchNorm2d(128),
       Elementwise("Dropout"),
       Elementwise("LeakyReLU"),
       Conv2d(128, 256, 4, 2, 1),
       BatchNorm2d(256),
       Elementwise("Dropout"),
       Elementwise("LeakyReLU"),
       Conv2d(256, 512, 4, 2, 1),
       Elementwise("Dropout"),
       Elementwise("LeakyReLU"),
       Flatten,
       Linear(512, 1),
       Elementwise("Sigmoid") >>

\* Unet_Generator_V2.forward: self.model
UnetGeneratorV2Layers(latent_dim, channels_out) ==
    << ConvTranspose2d(latent_dim, 64, 4, 1, 0),
       BatchNorm2d(64),
       Elementwise("ReLU"),
       ConvTranspose2d(64, 32, 4, 2, 1),
       BatchNorm2d(32),
       Elementwise("ReLU"),
       ConvTranspose2d(32, channels_out, 4, 2, 1),
       Elementwise("Tanh") >>


\* A slip in the size formula: the padding counted once, not on both sides.
Conv2dOutOnePad(n, k, s, p) == ((n + p - k) \div s) + 1

\* Output size of Conv2d along one axis (dilation 1):
\* floor((n + 2p - k) / s) + 1
Conv2dOut(n, k, s, p) == ((n + 2 * p - k) \div s) + 1

\* Output size of ConvTranspose2d along one axis (dilation 1, no output
\* padding): (n - 1) s - 2p + k
ConvTranspose2dOut(n, k, s, p) == (n - 1) * s - 2 * p + k

CurShape == netShapes[Len(netShapes)]
CurLayer == netLayers[netPos]
Running == netStatus = "run" /\ netPos <= Len(netLayers)

\* The layer was applied and gave shape sh.
Advance(sh) ==
    /\ netShapes' = Append(netShapes, sh)
    /\ netPos' = netPos + 1
    /\ netStatus' = IF netPos = Len(netLayers) THEN "done" ELSE "run"
    /\ UNCHANGED <<netName, netLayers, netFedFrom>>

\* The layer rejected its input (a RuntimeError).
Reject ==
    /\ netStatus' = "error"
    /\ UNCHANGED <<netName, netLayers, netPos, netShapes, netFedFrom>>

ApplyConvTranspose2d ==
    /\ Running /\ CurLayer.op = "ConvTranspose2d"
    /\ LET l == CurLayer
           x == CurShape
       IN  IF Len(x) = 4 /\ x[2] = l.cin
              /\ ConvTranspose2dOut(x[3], l.k, l.s, l.p) > 0
              /\ ConvTranspose2dOut(x[4], l.k, l.s, l.p) > 0
           THEN Advance(<<x[1], l.cout,
                          ConvTranspose2dOut(x[3], l.k, l.s, l.p),
                          ConvTranspose2dOut(x[4], l.k, l.s, l.p)>>)
           ELSE Reject
    /\ UNCHANGED <<dsVars, lossVars, cmVars>>

ApplyConv2d ==
    /\ Running /\ CurLayer.op = "Conv2d"
    /\ LET l == CurLayer
           x == CurShape
       IN  IF Len(x) = 4 /\ x[2] = l.cin
              /\ x[3] + 2 * l.p >= l.k /\ x[4] + 2 * l.p >= l.k
           THEN Advance(<<x[1], l.cout,
                          Conv2dOut(x[3], l.k, l.s, l.p),
                          Conv2dOut(x[4], l.k, l.s, l.p)>>)
           ELSE Reject
    /\ UNCHANGED <<dsVars, lossVars, cmVars>>

ApplyBatchNorm2d ==
    /\ Running /\ CurLayer.op = "BatchNorm2d"
    /\ IF Len(CurShape) = 4 /\ CurShape[2] = CurLayer.cin
       THEN Advance(CurShape)
       ELSE Reject
    /\ UNCHANGED <<dsVars, lossVars, cmVars>>

ApplyElementwise ==
    /\ Running /\ CurLayer.op \in ElementwiseOps
    /\ Advance(CurShape)
    /\ UNCHANGED <<dsVars, lossVars, cmVars>>

ApplyFlatten ==
    /\ Running /\ CurLayer.op = "Flatten"
    /\ LET x == CurShape
       IN  Advance(<<x[1], x[2] * x[3] * x[4]>>)
    /\ UNCHANGED <<dsVars, lossVars, cmVars>>

ApplyLinear ==
    /\ Running /\ CurLayer.op = "Linear"
    /\ LET x == CurShape
       IN  IF x[Len(x)] = CurLayer.cin
           THEN Advance([x EXCEPT ![Len(x)] = CurLayer.cout])
           ELSE Reject
    /\ UNCHANGED <<dsVars, lossVars, cmVars>>

\* D(G(z)): a generator's output is the input of a Discriminator.
FeedDiscriminator ==
    /\ netStatus = "done" /\ netName \in {"Generator", "Unet_Generator_V2"}
    /\ \E channels_in \in 1 .. MaxChannels :
          netLayers' = DiscriminatorLayers(channels_in)
    /\ netFedFrom' = [name |-> netName, input |-> netShapes[1]]
    /\ netName' = "Discriminator"
    /\ netShapes' = <<CurShape>>
    /\ netPos' = 1
    /\ netStatus' = "run"
    /\ UNCHANGED <<dsVars, lossVars, cmVars>>

NoFeed == [name |-> "none", input |-> <<>>]

NetInit ==
    /\ netPos = 1
    /\ netStatus = "run"
    /\ netFedFrom = NoFeed
    /\ \E n \in 1 .. MaxBatchN, c \in 1 .. MaxChannels :
          \/ \E latent_dim, channels_out \in 1 .. MaxChannels :
             \E h, w \in 1 .. MaxLatentSide :
                /\ netShapes = << <<n, c, h, w>> >>
                /\ \/ /\ netName = "Generator"
                      /\ netLayers = GeneratorLayers(latent_dim, channels_out)
                   \/ /\ netName = "Unet_Generator_V2"
                      /\ netLayers = UnetGeneratorV2Layers(latent_dim, channels_out)
          \/ \E channels_in \in 1 .. MaxChannels :
             \E h, w \in 1 .. MaxImageSide :
                /\ netShapes = << <<n, c, h, w>> >>
                /\ netName = "Discriminator"
                /\ netLayers = DiscriminatorLayers(channels_in)

NetIdle ==
    /\ netName = "none"
    /\ netLayers = <<>>
    /\ netPos = 0
    /\ netShapes = <<>>
    /\ netStatus = "off"
    /\ netFedFrom = NoFeed

NetNext ==
    \/ ApplyConvTranspose2d
    \/ ApplyConv2d
    \/ ApplyBatchNorm2d
    \/ ApplyElementwise
    \/ ApplyFlatten
    \/ ApplyLinear
    \/ FeedDiscriminator

(***************************************************************************)
(* unet_d_criterion_with_cutmix. Tensor entries are numbers of [0, 1] on a *)
(* grid of Scale steps: the integer x stands for x / Scale, and epsilon is *)
(* one step. A logarithm and what is computed from it are kept as sign     *)
(* classes: "-inf", "neg", "zero", "pos", "+inf" (a number of that sign),  *)
(* "fin" (a finite number of unknown sign) and "nan".                      *)
(***************************************************************************)

\* The grid has Scale steps from 0 to 1.
Scale == 10
\* The call is tried with 1 .. MaxLossBatch images.
MaxLossBatch == 2

\* 1.0 on the grid
One == Scale
\* epsilon: the smallest positive value of the grid
Epsilon == 1

\* The entries tried for the discriminator's outputs and for the mask.
OutValues == {0, Epsilon, Scale \div 2, One - Epsilon, One}
EncValues == {0, Scale \div 2, One}
MaskValues == {0, Scale \div 2, One}

\* A slip: the lower bound of the clamp left out.
ClampNoMin(x, lo, hi) == Min(x, hi)

\* torch.clamp(x, min=lo, max=hi) on one entry
Clamp(x, lo, hi) == Min(IF x < lo THEN lo ELSE x, hi)

\* a * b of two grid values, rounded down to the grid
Mul(a, b) == (a * b) \div Scale

\* torch.log on one entry, as a sign class
Log(x) ==
    IF x < 0 THEN "nan"
    ELSE IF x = 0 THEN "-inf"
    ELSE IF x < One THEN "neg"
    ELSE IF x = One THEN "zero"
    ELSE "pos"

\* m * c for a grid value m >= 0 and a sign class c (0 * inf is nan)
Times(m, c) ==
    IF c = "nan" THEN "nan"
    ELSE IF m = 0 THEN (IF c \in {"-inf", "+inf"} THEN "nan" ELSE "zero")
    ELSE c

\* c + d of two sign classes
Plus(c, d) ==
    IF c = "nan" \/ d = "nan" THEN "nan"
    ELSE IF {c, d} = {"-inf", "+inf"} THEN "nan"
    ELSE IF "-inf" \in {c, d} THEN "-inf"
    ELSE IF "+inf" \in {c, d} THEN "+inf"
    ELSE IF c = "zero" THEN d
    ELSE IF d = "zero" THEN c
    ELSE IF c = d THEN c
    ELSE "fin"

\* -c
Negate(c) ==
    CASE c = "-inf" -> "+inf"
      [] c = "+inf" -> "-inf"
      [] c = "neg" -> "pos"
      [] c = "pos" -> "neg"
      [] OTHER -> c

\* torch.sum of a sequence of sign classes
RECURSIVE Sum(_)
Sum(cs) == IF cs = <<>> THEN "zero" ELSE Plus(cs[1], Sum(Tail(cs)))

\* c / batch_size
DivideBy(c, n) == IF n > 0 THEN c ELSE "nan"

LossInit ==
    /\ lossPc = "clamp_out"
    /\ lossBatchSize \in 1 .. MaxLossBatch
    /\ out_1 \in [1 .. lossBatchSize -> EncValues]
    /\ out_2 \in [1 .. lossBatchSize -> OutValues]
    /\ M \in [1 .. lossBatchSize -> MaskValues]
    /\ p1 = <<>> /\ p2 = <<>>
    /\ loss_1 = "none" /\ loss_2 = "none"
    /\ lossLogArgs = {}
    /\ lossRet = "none"

LossIdle ==
    /\ lossPc = "off"
    /\ lossBatchSize = 0
    /\ out_1 = <<>> /\ out_2 = <<>> /\ M = <<>>
    /\ p1 = <<>> /\ p2 = <<>>
    /\ loss_1 = "none" /\ loss_2 = "none"
    /\ lossLogArgs = {}
    /\ lossRet = "none"

\* out_1 = torch.clamp(out_1, ...); out_2 = torch.clamp(out_2, ...)
ClampOutputs ==
    /\ lossPc = "clamp_out"
    /\ out_1' = [i \in DOMAIN out_1 |-> Clamp(out_1[i], Epsilon, One - Epsilon)]
    /\ out_2' = [i \in DOMAIN out_2 |-> Clamp(out_2[i], Epsilon, One - Epsilon)]
    /\ lossPc' = "loss_1"
    /\ UNCHANGED <<lossBatchSize, M, p1, p2, loss_1, loss_2, lossLogArgs, lossRet>>
    /\ UNCHANGED <<dsVars, netVars, cmVars>>

\* loss_1 = -torch.sum(torch.log(out_1))
ComputeLoss1 ==
    /\ lossPc = "loss_1"
    /\ loss_1' = Negate(Sum([i \in DOMAIN out_1 |-> Log(out_1[i])]))
    /\ lossLogArgs' = lossLogArgs \cup {out_1[i] : i \in DOMAIN out_1}
    /\ lossPc' = "products"
    /\ UNCHANGED <<lossBatchSize, out_1, out_2, M, p1, p2, loss_2, lossRet>>
    /\ UNCHANGED <<dsVars, netVars, cmVars>>

\* p1 = out_2 * M; p2 = out_2 * (1 - M)
Products ==
    /\ lossPc = "products"
    /\ p1' = [i \in DOMAIN out_2 |-> Mul(out_2[i], M[i])]
    /\ p2' = [i \in DOMAIN out_2 |-> Mul(out_2[i], One - M[i])]
    /\ lossPc' = "clamp_p"
    /\ UNCHANGED <<lossBatchSize, out_1, out_2, M, loss_1, loss_2, lossLogArgs, lossRet>>
    /\ UNCHANGED <<dsVars, netVars, cmVars>>

\* p1 = torch.clamp(p1, ...); p2 = torch.clamp(p2, ...)
ClampProducts ==
    /\ lossPc = "clamp_p"
    /\ p1' = [i \in DOMAIN p1 |-> Clamp(p1[i], Epsilon, One - Epsilon)]
    /\ p2' = [i \in DOMAIN p2 |-> Clamp(p2[i], Epsilon, One - Epsilon)]
    /\ lossPc' = "loss_2"
    /\ UNCHANGED <<lossBatchSize, out_1, out_2, M, loss_1, loss_2, lossLogArgs, lossRet>>
    /\ UNCHANGED <<dsVars, netVars, cmVars>>

\* loss_2 = -torch.sum(M * torch.log(p1) + (1 - M) * torch.log(p2))
ComputeLoss2 ==
    /\ lossPc = "loss_2"
    /\ loss_2' = Negate(Sum([i \in DOMAIN p1 |->
                      Plus(Times(M[i], Log(p1[i])),
                           Times(One - M[i], Log(p2[i])))]))
    /\ lossLogArgs' = lossLogArgs \cup {p1[i] : i \in DOMAIN p1}
                                  \cup {p2[i] : i \in DOMAIN p2}
    /\ lossPc' = "return"
    /\ UNCHANGED <<lossBatchSize, out_1, out_2, M, p1, p2, loss_1, lossRet>>
    /\ UNCHANGED <<dsVars, netVars, cmVars>>

\* return (loss_1 + loss_2) / batch_size
ReturnLoss ==
    /\ lossPc = "return"
    /\ lossRet' = DivideBy(Plus(loss_1, loss_2), lossBatchSize)
    /\ lossPc' = "done"
    /\ UNCHANGED <<lossBatchSize, out_1, out_2, M, p1, p2, loss_1, loss_2, lossLogArgs>>
    /\ UNCHANGED <<dsVars, netVars, cmVars>>

LossNext ==
    \/ ClampOutputs
    \/ ComputeLoss1
    \/ Products
    \/ ClampProducts
    \/ ComputeLoss2
    \/ ReturnLoss

(***************************************************************************)
(* generate_CutMix_samples and rand_bbox. Images, rows and columns are     *)
(* numbered from 0 as in the code. A tensor of shape (batch_size, C, H, W) *)
(* is a function of <<i, k, r, c>>; the entries of real_batch, fake_batch  *)
(* and of the two decoder outputs are pairwise distinct symbols, so that   *)
(* an entry of a mixed tensor tells where it was taken from.               *)
(***************************************************************************)

\* Batches hold 1 .. MaxMixBatch images of MixChannels channels and H rows
\* by W columns each, square or not, up to MaxPixels positions in the batch.
MaxMixBatch == 2
MixChannels == 2
MaxPixels == 12
\* torch.rand draws the ratios 1 - (k / CutDen)^2, k in 1 .. CutDen (the
\* values of [0, 1) whose cut ratio sqrt(1 - ratio) is k / CutDen).
CutDen == 2

Images == 0 .. batch_size - 1
\* The index set of a tensor of shape (batch_size, chans, H, W).
Index(chans) == Images \X (0 .. chans - 1) \X (0 .. H - 1) \X (0 .. W - 1)

\* The entries of real_batch and of fake_batch at index x.
RealPixel(x) == <<"real", x[1], x[2], x[3], x[4]>>
FakePixel(x) == <<"fake", x[1], x[2], x[3], x[4]>>

\* real_batch, fake_batch
real_batch == [x \in Index(MixChannels) |-> RealPixel(x)]
fake_batch == [x \in Index(MixChannels) |-> FakePixel(x)]

\* The entry at index x of the decoder output computed from an image whose
\* first entry is e: a function of that image and of the position.
DecodedPixel(e, x) == <<"decoded", e[1], e[2], x[3], x[4]>>

\* D_unet(t)[1]: the decoder output, one channel, H x W (the U-Net
\* discriminators' last layer is a 1x1 convolution to one channel at the
\* input's resolution; on a size their skip connections cannot
\* concatenate, forward raises and nothing is returned).
D_unet_decoder(t) ==
    LET first == [i \in Images |-> t[<<i, 0, 0, 0>>]]
    IN  [x \in Index(1) |-> DecodedPixel(first[x[1]], x)]

\* The permutations of the images: torch.randperm(batch_size)
Perms == {f \in [Images -> Images] : \A i, j \in Images : f[i] = f[j] => i = j}

\* The fractions torch.rand may draw.
RandRatios == {<<CutDen * CutDen - k * k, CutDen * CutDen>> : k \in 1 .. CutDen}

\* The integer square root (exact on the squares).
Sqrt(n) == CHOOSE s \in 0 .. n : s * s <= n /\ (s + 1) * (s + 1) > n

\* torch.sqrt(1 - ratio) of a fraction
SqrtOneMinus(q) == <<Sqrt(q[2] - q[1]), Sqrt(q[2])>>

\* (cut_ratio * n).long()
CutLength(q, n) == (q[1] * n) \div q[2]

\* Index x of an axis of n entries is one the slice lo:hi selects
\* (0 <= lo, 0 <= hi; a bound past the end is clipped to it).
InSlice(x, lo, hi, n) == 0 <= x /\ x < n /\ lo <= x /\ x < hi

\* A slip: the box's row bounds used for the columns and the other way round.
SliceAssignSwapped(dst, src, i, r1, r2, c1, c2) ==
    [x \in DOMAIN dst |->
        IF x[1] = i /\ InSlice(x[3], c1, c2, H) /\ InSlice(x[4], r1, r2, W)
        THEN src[x] ELSE dst[x]]

\* dst[i, :, r1:r2, c1:c2] = src[i, :, r1:r2, c1:c2]
SliceAssign(dst, src, i, r1, r2, c1, c2) ==
    [x \in DOMAIN dst |->
        IF x[1] = i /\ InSlice(x[3], r1, r2, H) /\ InSlice(x[4], c1, c2, W)
        THEN src[x] ELSE dst[x]]

\* for i in range(batch_size): dst[i, :, bbx1[i]:bbx2[i], bby1[i]:bby2[i]] = src[...]
\* from image i on.
RECURSIVE MixLoop(_, _, _)
MixLoop(i, dst, src) ==
    IF i >= batch_size THEN dst
    ELSE MixLoop(i + 1, SliceAssign(dst, src, i, bbx1[i], bbx2[i], bby1[i], bby2[i]), src)

\* A slip: the first image's box used for every image of the decoded batch.
RECURSIVE MixLoopFirstBox(_, _, _)
MixLoopFirstBox(i, dst, src) ==
    IF i >= batch_size THEN dst
    ELSE MixLoopFirstBox(i + 1,
            SliceAssign(dst, src, i, bbx1[0], bbx2[0], bby1[0], bby2[0]), src)

\* A slip: the decoded loop with the first image's box.
MixedDecodedFirstBox(D_decoder, D_g_decoder) == MixLoopFirstBox(0, D_decoder, D_g_decoder)

\* cutmixed_decoded = D_decoder.clone(); for i in range(batch_size): ...
MixedDecoded(D_decoder, D_g_decoder) == MixLoop(0, D_decoder, D_g_decoder)

\* 1 - ((x2 - x1) * (y2 - y1) / (W * H)) as a fraction
PixelRatio(x1, x2, y1, y2) == <<W * H - (x2 - x1) * (y2 - y1), W * H>>

\* target_a = real_batch.clone()
target_a == real_batch
\* target_b = fake_batch[rand_indices].clone()
target_b ==
    [x \in Index(MixChannels) |-> FakePixel(<<rand_indices[x[1]], x[2], x[3], x[4]>>)]

CutMixInit ==
    /\ cmPc = "start"
    /\ batch_size \in 1 .. MaxMixBatch
    /\ H \in 1 .. MaxPixels
    /\ W \in 1 .. MaxPixels
    /\ batch_size * H * W <= MaxPixels
    /\ ratios = <<>> /\ rand_indices = <<>>
    /\ bbx1 = <<>> /\ bby1 = <<>> /\ bbx2 = <<>> /\ bby2 = <<>>
    /\ cutmixed = <<>> /\ cutmixed_decoded = <<>>
    /\ cmRet = <<>>

CutMixIdle ==
    /\ cmPc = "off"
    /\ batch_size = 0 /\ H = 0 /\ W = 0
    /\ ratios = <<>> /\ rand_indices = <<>>
    /\ bbx1 = <<>> /\ bby1 = <<>> /\ bbx2 = <<>> /\ bby2 = <<>>
    /\ cutmixed = <<>> /\ cutmixed_decoded = <<>>
    /\ cmRet = <<>>

\* ratios = torch.rand(batch_size); rand_indices = torch.randperm(batch_size)
DrawRandom ==
    /\ cmPc = "start"
    /\ ratios' \in [Images -> RandRatios]
    /\ rand_indices' \in Perms
    /\ cmPc' = "bbox"
    /\ UNCHANGED <<batch_size, H, W, bbx1, bby1, bbx2, bby2, cutmixed,
                   cutmixed_decoded, cmRet>>
    /\ UNCHANGED <<dsVars, netVars, lossVars>>

\* bbx1, bby1, bbx2, bby2 = rand_bbox(real_batch.size(), ratios, device)
RandBbox ==
    /\ cmPc = "bbox"
    /\ \E x1 \in [Images -> 0 .. W - 1], y1 \in [Images -> 0 .. H - 1] :
          /\ bbx1' = x1
          /\ bby1' = y1
          /\ bbx2' = [i \in Images |->
                         Min(x1[i] + CutLength(SqrtOneMinus(ratios[i]), W), W)]
          /\ bby2' = [i \in Images |->
                         Min(y1[i] + CutLength(SqrtOneMinus(ratios[i]), H), H)]
    /\ cmPc' = "mix"
    /\ UNCHANGED <<batch_size, H, W, ratios, rand_indices,
                   cutmixed, cutmixed_decoded, cmRet>>
    /\ UNCHANGED <<dsVars, netVars, lossVars>>

\* cutmixed = real_batch.clone(); for i in range(batch_size): ...
MixImages ==
    /\ cmPc = "mix"
    /\ cutmixed' = MixLoop(0, real_batch, target_b)
    /\ cmPc' = "ratios"
    /\ UNCHANGED <<batch_size, H, W, ratios, rand_indices,
                   bbx1, bby1, bbx2, bby2, cutmixed_decoded, cmRet>>
    /\ UNCHANGED <<dsVars, netVars, lossVars>>

\* ratios = 1 - ((bbx2 - bbx1) * (bby2 - bby1) / (W * H))
AdjustRatios ==
    /\ cmPc = "ratios"
    /\ ratios' = [i \in Images |-> PixelRatio(bbx1[i], bbx2[i], bby1[i], bby2[i])]
    /\ cmPc' = "decode"
    /\ UNCHANGED <<batch_size, H, W, rand_indices,
                   bbx1, bby1, bbx2, bby2, cutmixed, cutmixed_decoded, cmRet>>
    /\ UNCHANGED <<dsVars, netVars, lossVars>>

\* D_decoder, D_g_decoder = D_unet(target_a)[1], D_unet(target_b)[1]
\* cutmixed_decoded = D_decoder.clone(); for i in range(batch_size): ...
MixDecoded ==
    /\ cmPc = "decode"
    /\ cutmixed_decoded' = MixedDecoded(D_unet_decoder(target_a), D_unet_decoder(target_b))
    /\ cmPc' = "return"
    /\ UNCHANGED <<batch_size, H, W, ratios, rand_indices,
                   bbx1, bby1, bbx2, bby2, cutmixed, cmRet>>
    /\ UNCHANGED <<dsVars, netVars, lossVars>>

\* return ratios, cutmixed, cutmixed_decoded, target_a, target_b, bbx1, bbx2, bby1, bby2
ReturnedTuple ==
    <<ratios, cutmixed, cutmixed_decoded, target_a, target_b, bbx1, bbx2, bby1, bby2>>

ReturnSamples ==
    /\ cmPc = "return"
    /\ cmRet' = ReturnedTuple
    /\ cmPc' = "done"
    /\ UNCHANGED <<batch_size, H, W, ratios, rand_indices,
                   bbx1, bby1, bbx2, bby2, cutmixed, cutmixed_decoded>>
    /\ UNCHANGED <<dsVars, netVars, lossVars>>

CutMixNext ==
    \/ DrawRandom
    \/ RandBbox
    \/ MixImages
    \/ AdjustRatios
    \/ MixDecoded
    \/ ReturnSamples

(***************************************************************************)
(* Specifications                                                          *)
(***************************************************************************)

InitDataset == DatasetInit /\ NetIdle /\ LossIdle /\ CutMixIdle
SpecDataset == InitDataset /\ [][DatasetNext]_vars

InitNet == NetInit /\ DatasetIdle /\ LossIdle /\ CutMixIdle
SpecNet == InitNet /\ [][NetNext]_vars

InitLoss == LossInit /\ DatasetIdle /\ NetIdle /\ CutMixIdle
SpecLoss == InitLoss /\ [][LossNext]_vars

InitCutMix == CutMixInit /\ DatasetIdle /\ NetIdle /\ LossIdle
SpecCutMix == InitCutMix /\ [][CutMixNext]_vars

(***************************************************************************)
(* Properties                                                              *)
(***************************************************************************)

\* The number of regular files the directory holds.
RegularFileCount ==
    Cardinality({j \in 1 .. Len(dirEntries) : dirEntries[j].isfile})

\* x is the name of a regular file of the directory (a listing names its
\* j-th entry j).
IsRegularFileName(x) ==
    /\ x \in 1 .. Len(dirEntries)
    /\ dirEntries[x].name = x
    /\ dirEntries[x].isfile

\* C1: once a ConstructDataset is built on a directory, __len__() is
\* min(1000, number of directory entries that are regular files): never more
\* than 1000; and an entry that is not a regular file is neither counted
\* nor returned by __getitem__.
C1_LenIsCappedFileCount ==
    dsPc \in {"ready", "len", "item", "error"} =>
        /\ Len(image_files) = Min(1000, RegularFileCount)
        /\ Len(image_files) <= 1000
        /\ \A j \in 1 .. Len(image_files) : IsRegularFileName(image_files[j])
        /\ dsResult.kind = "len" => dsResult.val = Min(1000, RegularFileCount)
        /\ dsResult.kind = "item" => IsRegularFileName(dsResult.val)

\* C1 witness: __len__ has answered 1000 on a directory that holds more
\* than 1000 regular files and a subdirectory.
C1_Witness ==
    /\ dsPc = "len"
    /\ dsResult = [kind |-> "len", val |-> 1000]
    /\ RegularFileCount > 1000
    /\ \E j \in 1 .. Len(dirEntries) : ~dirEntries[j].isfile

\* The input of the running module is n images of size h x w whose channel
\* count is the one its first layer was built for.
NetInputIs(h, w) ==
    /\ Len(netShapes) >= 1
    /\ netShapes[1][3] = h /\ netShapes[1][4] = w
    /\ netShapes[1][2] = netLayers[1].cin

\* C6: a Generator turns a latent input of spatial size 1x1 into an output
\* of spatial size 128x128 with channels_out channels: 4x4 after the first
\* transposed convolution, 8x8 after the second, 128x128 after the final
\* layer.
C6_GeneratorUpscalesTo128 ==
    (netName = "Generator" /\ netStatus = "done" /\ NetInputIs(1, 1)) =>
        LET n == netShapes[1][1]
        IN  /\ netShapes[2] = <<n, 1024, 4, 4>>
            /\ netShapes[5] = <<n, 512, 8, 8>>
            /\ CurShape = <<n, netLayers[6].cout, 128, 128>>

C2_LogArgsClampedLossFinite ==
    /\ \A x \in lossLogArgs : x >= Epsilon /\ x <= One - Epsilon /\ x # 0
    /\ lossPc \in {"products", "clamp_p", "loss_2", "return", "done"} =>
          loss_1 \in {"zero", "pos"}
    /\ lossPc \in {"return", "done"} => loss_2 \in {"zero", "pos"}
    /\ lossPc = "done" => lossRet \in {"zero", "pos"}

\* C2 witness: the call has returned on inputs that hold a 0 in out_1, a 0
\* in out_2 and a mask entry of 0 and one of 1, the logarithm was applied to
\* epsilon, and the loss is finite and positive.
C2_Witness ==
    /\ lossPc = "done"
    /\ \E i, j \in DOMAIN M : M[i] = 0 /\ M[j] = One
    /\ \E i \in DOMAIN p1 : p1[i] = Epsilon /\ M[i] = 0
    /\ Epsilon \in lossLogArgs
    /\ lossRet = "pos"

\* Position <<r, c>> lies in the box [x1, x2) x [y1, y2).
InBox(r, c, x1, x2, y1, y2) == x1 <= r /\ r < x2 /\ y1 <= c /\ c < y2

\* C3: generate_CutMix_samples mixes per image: with the returned target_b
\* (image i of it being fake_batch[rand_indices[i]]) and the returned box
\* bbx1, bbx2, bby1, bby2, the returned cutmixed[i] at (r, c), in every
\* channel, is target_b[i] there when bbx1[i] <= r < bbx2[i] and
\* bby1[i] <= c < bby2[i], and real_batch[i] at every other position.
C3_RegionMixedPerImage ==
    cmPc = "done" =>
        LET mixed == cmRet[2]
            tb == cmRet[5]
            x1 == cmRet[6]
            x2 == cmRet[7]
            y1 == cmRet[8]
            y2 == cmRet[9]
        IN  \A x \in Index(MixChannels) :
               /\ tb[x] = FakePixel(<<rand_indices[x[1]], x[2], x[3], x[4]>>)
               /\ mixed[x] = IF InBox(x[3], x[4], x1[x[1]], x2[x[1]], y1[x[1]], y2[x[1]])
                             THEN tb[x]
                             ELSE RealPixel(x)

\* C3 witness: a call on two images or more has returned, the fake batch
\* was permuted, two images have different boxes, and one image holds both
\* a position taken from the fake image and a position kept from the real.
C3_Witness ==
    /\ cmPc = "done"
    /\ \E i \in Images : rand_indices[i] # i
    /\ \E i, j \in Images : <<bbx1[i], bbx2[i], bby1[i], bby2[i]>>
                              # <<bbx1[j], bbx2[j], bby1[j], bby2[j]>>
    /\ \E x, y \in Index(MixChannels) :
          /\ x[1] = y[1]
          /\ cmRet[2][x] = cmRet[5][x]
          /\ cmRet[2][y] = RealPixel(y)

\* The number of positions of image i that cutmixed took from the fake image.
ReplacedCount(i) ==
    Cardinality({x \in Index(1) : x[1] = i /\ cmRet[2][x] = cmRet[5][x]})

\* C4: the returned ratios match the pixel ratio of each image, whatever
\* the height H and the width W: ratios[i] is the fraction of the H * W
\* positions of cutmixed[i] that were kept from real_batch[i], that is
\* 1 - (number of positions replaced by the fake image) / (H * W).
C4_RatiosMatchPixelRatio ==
    cmPc = "done" =>
        \A i \in Images :
            cmRet[1][i][1] * (H * W) = (H * W - ReplacedCount(i)) * cmRet[1][i][2]

\* C5: the decoded outputs are mixed over the same region as the images:
\* cutmixed_decoded[i] at (r, c) is D_unet(target_b)[1][i] there exactly
\* when cutmixed[i] at (r, c) is target_b[i], and D_unet(target_a)[1][i]
\* exactly when cutmixed[i] at (r, c) is real_batch[i].
C5_DecodedMixedOverSameRegion ==
    cmPc = "done" =>
        \A x \in Index(MixChannels) :
            LET d == <<x[1], 0, x[3], x[4]>>
                D_decoder_d == DecodedPixel(cmRet[4][<<x[1], 0, 0, 0>>], d)
                D_g_decoder_d == DecodedPixel(cmRet[5][<<x[1], 0, 0, 0>>], d)
            IN  /\ cmRet[3][d] = D_g_decoder_d <=> cmRet[2][x] = cmRet[5][x]
                /\ cmRet[3][d] = D_decoder_d <=> cmRet[2][x] = RealPixel(x)

\* C5 witness: a call on images that are not square has returned a decoded
\* mix of an image that holds both a position of the fake image's decoder
\* output and a position of the real image's.
C5_Witness ==
    /\ cmPc = "done"
    /\ H # W
    /\ \E x, y \in Index(1) :
          /\ x[1] = y[1]
          /\ cmRet[3][x] = DecodedPixel(cmRet[5][<<x[1], 0, 0, 0>>], x)
          /\ cmRet[3][y] = DecodedPixel(cmRet[4][<<y[1], 0, 0, 0>>], y)

====
